---- MODULE Spec2Model ----
(***************************************************************************)
(* Pixshop (mrpal39/pixel-1): the edit-history store of the editor slice,  *)
(* the handlers of HomePage and EditorPage that drive it, and the App      *)
(* effects that load and save the session.                                 *)
(*                                                                         *)
(* A File is [data, name]: data identifies the image bytes (every image    *)
(* that an upload, a generation or an edit produces gets a fresh id), name *)
(* is the generated file name.  JavaScript indices are 0-based; the        *)
(* sequences below are 1-based, so history[i] of the source is At(h, i).   *)
(***************************************************************************)
EXTENDS Integers, Sequences, FiniteSets, TLC

\* ------------------------------------------------------------------ bounds
MaxArtifacts == 2   \* images created in one run (fresh data ids 0..MaxArtifacts-1)
MaxInFlight  == 2   \* edit calls in flight at the same time
MaxGen       == 1   \* text-to-image calls in flight at the same time
MaxConnect   == 1   \* silentConnect thunks awaiting the wallet provider
MaxSaves     == 2   \* saveSession runs awaiting fileToDataURL
MaxItems     == 3   \* rows of the CSV handed to the batch minter
MaxMints     == 2   \* submissions of the minting form
MaxNfts      == 3   \* records of the connected account on the dashboard

\* --------------------------------------------------------------- variables
VARIABLES
  history,        \* editor.history : File[]
  historyIndex,   \* editor.historyIndex
  isLoading,      \* editor.isLoading
  error,          \* editor.error ("null" or a message)
  pathname,       \* location.pathname
  session,        \* sessionStorage[SESSION_STORAGE_KEY]
  saves,          \* saveSession() runs that await fileToDataURL
  calls,          \* edit-producing geminiService calls in flight
  gens,           \* generateImageFromText calls in flight
  connects,       \* silentConnect thunks awaiting eth_accounts
  hasEthereum,    \* window.ethereum is defined
  mounted,        \* App has committed its first render
  rendered,       \* effect dependencies as of the last committed render
  histDirty,      \* state.history was assigned since the last committed render
  nextId,         \* id of the next image that is created
  lastOp,         \* history variable: the store operation of the last step
  discarded       \* history variable: images cut off by a non-tip append since the last seed

\* the batch minter of the home page
VARIABLES
  minter,         \* CollectionMinter: its props and useState values
  loop            \* the running handleMintCollection: its closure and position

\* the edit calls in flight, in the order they were issued: for each the image
\* it was computed from and the images that followed it then. Recorded by the
\* specification SpecRace only.
VARIABLES issued

vEditor == <<history, historyIndex, isLoading, error, pathname, session, saves,
             calls, gens, connects, hasEthereum, mounted, rendered,
             histDirty, nextId, lastOp, discarded>>
\* the wallet, the minted NFTs and the single mint of the current image
VARIABLES
  walletAddress,  \* wallet.walletAddress ("null" or an account)
  myNfts,         \* nfts.myNfts
  storedNfts,     \* localStorage nfts-<address>, one list per account
  nftsDirty,      \* myNfts or walletAddress changed since the saving effect ran
  mint            \* MintingModal and the handleConfirmMint it started

\* DashboardPage
VARIABLES
  searchTerm,     \* the search box, a string as its sequence of characters
  sortBy,         \* the sort option
  draggedIndex    \* index in the view of the card being dragged, NoDrag if none

vBatch  == <<minter, loop>>
vNft    == <<walletAddress, myNfts, storedNfts, nftsDirty, mint>>
vDash   == <<searchTerm, sortBy, draggedIndex>>
vars == <<vEditor, vBatch, issued, vNft, vDash>>

\* what the actions of one component leave alone
vOffEditor == <<vBatch, issued, vNft, vDash>>
vOffBatch  == <<vEditor, issued, vNft, vDash>>
vOffNft    == <<vEditor, vBatch, issued, vDash>>
vOffDash   == <<vEditor, vBatch, issued, walletAddress, mint>>
vOffRace   == <<vBatch, vNft, vDash>>

\* groups of variables an action leaves alone
vEnv    == <<hasEthereum, mounted, rendered>>
vAsync  == <<saves, calls, gens, connects>>
vStore  == <<history, historyIndex, histDirty>>

\* ------------------------------------------------------------------ values
NoError == "null"

\* values of lastOp: the store operation a step performed ("other": none)
SeedOps == {"seed", "seedOver"}
AppendOps == {"append", "appendCut"}
SeekOps == {"seek", "seekRejected"}

\* the edit-producing handlers of EditorPage that await geminiService
EditKinds == {"edited", "filtered", "adjusted", "bg-removed", "upscaled", "styled", "erased"}

Paths == {"/", "/editor"}

\* the image of the previous run of the tab (still in sessionStorage after a reload)
PrevData == {-1}
\* ids of all images
Data == PrevData \cup 0..(MaxArtifacts - 1)

\* name: the prefix of the generated file name and its number (the index i of
\* `session-img-${i}.png`; the time stamp of the other names is not modelled)
File(d, prefix, n) == [data |-> d, name |-> [prefix |-> prefix, n |-> n]]

NoSession == [kind |-> "none", history |-> <<>>, historyIndex |-> 0]

Min(a, b) == IF a < b THEN a ELSE b
Max(a, b) == IF a > b THEN a ELSE b

\* history[i] with a 0-based index; "undefined" outside the array
Defined(h, i) == i >= 0 /\ i < Len(h)
At(h, i) == h[i + 1]

\* Array.prototype.slice(0, end)
slice0(h, end) ==
  LET relEnd == IF end < 0 THEN Max(Len(h) + end, 0) ELSE Min(end, Len(h))
  IN  SubSeq(h, 1, relEnd)

DataOf(h) == [i \in DOMAIN h |-> h[i].data]
DataSet(h) == {h[i].data : i \in DOMAIN h}

\* ------------------------------------------------------- editorSlice reducers
Store == [history |-> history, historyIndex |-> historyIndex]

\* A definition named X_fault is X with one fault seeded; the properties at the
\* end of the module are required to fail when X is replaced by it.
setHistoryState_badIndex(h, i) == [history |-> h, historyIndex |-> Len(h)]
setHistoryState(h, i) == [history |-> h, historyIndex |-> i]

setHistoryIndex_offByOne(st, i) == [st EXCEPT !.historyIndex = i - 1]
setHistoryIndex_truncates(st, i) == [history |-> slice0(st.history, i + 1), historyIndex |-> i]
setHistoryIndex(st, i) == [st EXCEPT !.historyIndex = i]

addImageToHistory_noTruncate(st, f) ==
  LET newHistory == Append(st.history, f)
  IN  [history |-> newHistory, historyIndex |-> Len(newHistory) - 1]
addImageToHistory_dropsCurrent(st, f) ==
  LET newHistory == Append(slice0(st.history, st.historyIndex), f)
  IN  [history |-> newHistory, historyIndex |-> Len(newHistory) - 1]
addImageToHistory(st, f) ==
  LET newHistory == Append(slice0(st.history, st.historyIndex + 1), f)
  IN  [history |-> newHistory, historyIndex |-> Len(newHistory) - 1]

resetHistory_keepsCursor == [history |-> <<>>, historyIndex |-> historyIndex]
resetHistory == [history |-> <<>>, historyIndex |-> -1]

\* ----------------------------------------------------- session conversions
\* fileToDataURL keeps the bytes and the type and drops the file name
fileToDataURL(f) == f.data
\* dataURLtoFile(dataUrl, `session-img-${i}.png`)
dataURLtoFile(d, prefix, n) == File(d, prefix, n)

sessionData(h, i) ==
  [kind |-> "json", history |-> [k \in DOMAIN h |-> fileToDataURL(h[k])], historyIndex |-> i]

\* the test of the session loading effect on the parsed value
sessionUsable(s) == s.kind = "json" /\ Len(s.history) > 0

savedFiles(s) == [k \in DOMAIN s.history |-> dataURLtoFile(s.history[k], "session-img", k - 1)]

\* ------------------------------------------------------------ what is shown
\* App returns only the Spinner while isLoading && history.length === 0
ShowsRoutes == ~(isLoading /\ Len(history) = 0)
\* a committed render shows the current store: user events reach its handlers
Settled ==
  /\ mounted
  /\ ~histDirty
  /\ rendered = [isLoading |-> isLoading, pathname |-> pathname, historyIndex |-> historyIndex]
HomeVisible == Settled /\ ShowsRoutes /\ pathname = "/"
EditorMounted == Settled /\ ShowsRoutes /\ pathname = "/editor" /\ Len(history) > 0
EditorVisible == EditorMounted /\ error = NoError



\* --------------------------------------------------------------------- Init
\* sessionStorage outlives the page. A fresh tab has no session; a reloaded tab
\* has what was last stored under the key: the session that the saving effect
\* of the previous run wrote, or a value some other writer left there, which
\* JSON.parse rejects or which parses to a cursor outside the stored history.
\* CollectionMinter as useState initialises it, with nothing loaded
NoProgress ==
  [total |-> 0, completed |-> 0, errors |-> 0, successfulMints |-> <<>>, failedMints |-> <<>>]
IdleMinter ==
  [walletAddress |-> "null", contractAddress |-> "", parsedData |-> <<>>,
   isMinting |-> FALSE, isFinished |-> FALSE, mintingProgress |-> NoProgress]
\* no handleMintCollection is running
IdleLoop == [items |-> <<>>, at |-> 0, awaiting |-> FALSE, attempts |-> <<>>]

\* the accounts of the wallet extension
Accounts == {"0xA", "0xB"}
\* MintingModal closed, no mint running; config is what localStorage holds
\* under pixshop-contract-address and pixshop-network
IdleMint ==
  [open |-> FALSE, config |-> "ok", step |-> "idle", stage |-> "none", to |-> "null",
   uploaded |-> FALSE, receipt |-> FALSE, hash |-> FALSE, log |-> <<>>,
   count |-> 0]
\* no wallet connected, nothing minted
NoNftState ==
  /\ walletAddress = "null"
  /\ myNfts = <<>>
  /\ storedNfts = [a \in Accounts |-> <<>>]
  /\ nftsDirty = FALSE
  /\ mint = IdleMint

\* draggedIndex === null
NoDrag == -1
\* DashboardPage as it mounts
NoDashboard ==
  /\ searchTerm = <<>>
  /\ sortBy = "date-desc"
  /\ draggedIndex = NoDrag

GarbageSession == [kind |-> "garbage", history |-> <<>>, historyIndex |-> 0]
InitSessions ==
  { NoSession,
    sessionData(<<File(-1, "img", 0)>>, 0),
    sessionData(<<File(-1, "img", 0)>>, 1),
    GarbageSession }

Init ==
  /\ history = <<>>
  /\ historyIndex = -1
  /\ isLoading = TRUE
  /\ error = NoError
  /\ pathname = "/"
  /\ session \in InitSessions
  /\ saves = {}
  /\ calls = 0
  /\ gens = 0
  /\ connects = 0
  /\ hasEthereum \in BOOLEAN
  /\ mounted = FALSE
  /\ rendered = [isLoading |-> TRUE, pathname |-> "/", historyIndex |-> -1]
  /\ histDirty = FALSE
  /\ nextId = 0
  /\ lastOp = "other"
  /\ discarded = {}
  /\ minter = IdleMinter
  /\ loop = IdleLoop
  /\ issued = <<>>
  /\ NoNftState
  /\ NoDashboard

\* ------------------------------------------------ handlers as store functions
\* EditorPage.handleHistoryNavigation
handleHistoryNavigation_noGuard(st, i) == setHistoryIndex(st, i)
handleHistoryNavigation(st, i) ==
  IF i >= 0 /\ i < Len(st.history) THEN setHistoryIndex(st, i) ELSE st

\* EditorPage.handleReset
handleReset_clears(st) == resetHistory
handleReset(st) == IF Len(st.history) > 0 THEN setHistoryIndex(st, 0) ELSE st

\* EditorPage.addNewImage
addNewImage(st, f) == addImageToHistory(st, f)

\* EditorPage: historyImageUrls[historyIndex] ?? null and historyImageUrls[0] ?? null,
\* one URL per element of history; null is the empty set, a URL the set of its image
currentImageUrl(st) ==
  IF Defined(st.history, st.historyIndex) THEN {At(st.history, st.historyIndex)} ELSE {}
originalImageUrl(st) ==
  IF Defined(st.history, 0) THEN {At(st.history, 0)} ELSE {}
canUndo(st) == st.historyIndex > 0

\* the images that an append cuts off: those after the cursor that are gone
CutOff(st, new) ==
  {At(st.history, k).data : k \in {j \in 0..(Len(st.history) - 1) : j > st.historyIndex}}
    \ DataSet(new.history)

\* the store fields of the next state; assigned = the reducer assigned state.history
Commit(new, assigned) ==
  /\ history' = new.history
  /\ historyIndex' = new.historyIndex
  /\ histDirty' = (histDirty \/ assigned \/ new.history # history)

\* a seed: dispatch(setHistoryState({ history: [file], historyIndex: 0 })); navigate('/editor')
Seed(f) ==
  /\ Commit(setHistoryState(<<f>>, 0), TRUE)
  /\ pathname' = "/editor"
  /\ nextId' = nextId + 1
  /\ lastOp' = IF Len(history) > 0 THEN "seedOver" ELSE "seed"
  /\ discarded' = {}

\* ------------------------------------------------- the busy flag and the error
\* what an asynchronous handler dispatches before its await:
\* dispatch(setIsLoading(true)); dispatch(setError(null))
beforeCall_noBusy(st) == [isLoading |-> st.isLoading, error |-> NoError]
beforeCall(st) == [isLoading |-> TRUE, error |-> NoError]
\* ... and after it: catch { dispatch(setError(message)) }
\* finally { dispatch(setIsLoading(false)) }
afterCall_swallows(st, failed) == [isLoading |-> FALSE, error |-> st.error]
afterCall(st, failed) ==
  [isLoading |-> FALSE, error |-> IF failed THEN "failed" ELSE st.error]
Flags == [isLoading |-> isLoading, error |-> error]

\* ------------------------------------------------------------ HomePage
\* handleFileSelect: an uploaded file seeds the history
HandleFileSelect ==
  /\ HomeVisible
  /\ nextId < MaxArtifacts
  /\ Seed(File(nextId, "img", 0))
  /\ UNCHANGED <<isLoading, error, session, vAsync, vEnv>>
  /\ UNCHANGED vOffEditor

\* handleGenerateImage up to the await
StartGenerateImage ==
  /\ HomeVisible
  /\ ~isLoading
  /\ gens < MaxGen
  /\ isLoading' = beforeCall(Flags).isLoading
  /\ error' = beforeCall(Flags).error
  /\ gens' = gens + 1
  /\ lastOp' = "other"
  /\ UNCHANGED <<vStore, pathname, session, saves, calls, connects, vEnv, nextId, discarded>>
  /\ UNCHANGED vOffEditor

\* handleGenerateImage after the await: the call returned an image
GenerateImageOk ==
  /\ Settled
  /\ gens > 0
  /\ nextId < MaxArtifacts
  /\ Seed(File(nextId, "img", 0))
  /\ isLoading' = afterCall(Flags, FALSE).isLoading
  /\ error' = afterCall(Flags, FALSE).error
  /\ gens' = gens - 1
  /\ UNCHANGED <<session, saves, calls, connects, vEnv>>
  /\ UNCHANGED vOffEditor

\* handleGenerateImage after the await: the call or the conversion of its result threw
GenerateImageFails ==
  /\ Settled
  /\ gens > 0
  /\ error' = afterCall(Flags, TRUE).error
  /\ isLoading' = afterCall(Flags, TRUE).isLoading
  /\ gens' = gens - 1
  /\ lastOp' = "other"
  /\ UNCHANGED <<vStore, pathname, session, saves, calls, connects, vEnv, nextId, discarded>>
  /\ UNCHANGED vOffEditor

\* CharacterCreator.handleFinalize -> onFinalize -> handleCharacterFinalized
HandleCharacterFinalized ==
  /\ HomeVisible
  /\ nextId < MaxArtifacts
  /\ Seed(File(nextId, "img", 0))
  /\ UNCHANGED <<isLoading, error, session, vAsync, vEnv>>
  /\ UNCHANGED vOffEditor

\* ------------------------------------------------------------ EditorPage
\* the disabled attribute of the controls that invoke an edit-producing handler:
\* the generative-fill form and the magic eraser, adjustment, style preset and
\* upscale panels (the tests on the prompt, the hotspot and the mask are left
\* to the choice of the moment of the click)
editDisabled_never(loading) == FALSE
editDisabled(loading) == loading
\* the Apply Crop button of CropPanel, which gets isLoading and isCropping
cropDisabled(loading) == loading

\* handleGenerate, handleApplyFilter, handleApplyAdjustment, handleRemoveBackground,
\* handleUpscale, handleApplyArtStyle, handleMagicErase up to the await
StartEditCall(kind) ==
  /\ EditorVisible
  /\ ~editDisabled(isLoading)
  /\ Defined(history, historyIndex)
  /\ calls < MaxInFlight
  /\ isLoading' = beforeCall(Flags).isLoading
  /\ error' = beforeCall(Flags).error
  /\ calls' = calls + 1
  /\ lastOp' = "other"
  /\ UNCHANGED <<vStore, pathname, session, saves, gens, connects, vEnv, nextId, discarded>>
\* ... as a step of the editor
StartEdit(kind) ==
  /\ StartEditCall(kind)
  /\ UNCHANGED vOffEditor

\* addNewImage(newImageFile): the append of an edit result
AddNewImage(f) ==
  LET new == addNewImage(Store, f)
  IN  /\ Commit(new, TRUE)
      /\ discarded' = discarded \cup CutOff(Store, new)
      /\ nextId' = nextId + 1
      /\ lastOp' = IF historyIndex < Len(history) - 1 THEN "appendCut" ELSE "append"

\* ... after the await: the call returned an image, addNewImage commits it
EditOkCommit ==
  /\ Settled
  /\ calls > 0
  /\ nextId < MaxArtifacts
  /\ AddNewImage(File(nextId, "img", 0))
  /\ isLoading' = afterCall(Flags, FALSE).isLoading
  /\ error' = afterCall(Flags, FALSE).error
  /\ calls' = calls - 1
  /\ UNCHANGED <<pathname, session, saves, gens, connects, vEnv>>
\* ... as a step of the editor
EditOk_beforeResolved ==
  /\ Settled
  /\ calls > 0
  /\ nextId < MaxArtifacts
  /\ AddNewImage(File(nextId, "img", 0))
  /\ isLoading' = afterCall(Flags, FALSE).isLoading
  /\ error' = afterCall(Flags, FALSE).error
  /\ UNCHANGED <<calls, pathname, session, saves, gens, connects, vEnv>>
  /\ UNCHANGED vOffEditor
EditOk ==
  /\ EditOkCommit
  /\ UNCHANGED vOffEditor

\* ... after the await: the call or the conversion of its result threw
EditFailsCatch ==
  /\ Settled
  /\ calls > 0
  /\ error' = afterCall(Flags, TRUE).error
  /\ isLoading' = afterCall(Flags, TRUE).isLoading
  /\ calls' = calls - 1
  /\ lastOp' = "other"
  /\ UNCHANGED <<vStore, pathname, session, saves, gens, connects, vEnv, nextId, discarded>>
\* ... as a step of the editor
EditFails ==
  /\ EditFailsCatch
  /\ UNCHANGED vOffEditor

\* handleApplyCrop: synchronous, the crop of the displayed image is appended
HandleApplyCrop ==
  /\ EditorVisible
  /\ ~cropDisabled(isLoading)
  /\ Defined(history, historyIndex)
  /\ nextId < MaxArtifacts
  /\ AddNewImage(dataURLtoFile(nextId, "cropped", 0))
  /\ UNCHANGED <<isLoading, error, pathname, session, vAsync, vEnv>>
  /\ UNCHANGED vOffEditor

\* the index onNavigate may carry: a thumbnail of historyImageUrls, which can be
\* older than history, or any other number the prop is called with
NavIndexes == -1..(MaxArtifacts + Cardinality(PrevData))

HandleHistoryNavigation(i) ==
  /\ EditorVisible
  /\ Commit(handleHistoryNavigation(Store, i), FALSE)
  /\ lastOp' = IF i >= 0 /\ i < Len(history) THEN "seek" ELSE "seekRejected"
  /\ UNCHANGED <<isLoading, error, pathname, session, vAsync, vEnv, nextId, discarded>>
  /\ UNCHANGED vOffEditor

HandleReset ==
  /\ EditorVisible
  /\ Commit(handleReset(Store), FALSE)
  /\ error' = NoError
  /\ lastOp' = "seek"
  /\ UNCHANGED <<isLoading, pathname, session, vAsync, vEnv, nextId, discarded>>
  /\ UNCHANGED vOffEditor

\* the "Try Again" button of the error view
TryAgain ==
  /\ EditorMounted
  /\ error # NoError
  /\ error' = NoError
  /\ lastOp' = "other"
  /\ UNCHANGED <<vStore, isLoading, pathname, session, vAsync, vEnv, nextId, discarded>>
  /\ UNCHANGED vOffEditor

\* -------------------------------------------------------------------- App
\* handleUploadNew ("Start Over")
HandleUploadNew ==
  /\ EditorVisible
  /\ session' = NoSession
  /\ Commit(resetHistory, TRUE)
  /\ pathname' = "/"
  /\ lastOp' = "reset"
  /\ discarded' = {}
  /\ UNCHANGED <<isLoading, error, vAsync, vEnv, nextId>>
  /\ UNCHANGED vOffEditor

\* a click on a Header link, the back button or a typed URL
NavigateTo(p) ==
  /\ Settled
  /\ ShowsRoutes
  /\ p # pathname
  /\ pathname' = p
  /\ lastOp' = "other"
  /\ UNCHANGED <<vStore, isLoading, error, session, vAsync, vEnv, nextId, discarded>>
  /\ UNCHANGED vOffEditor

\* The commit of a render and the effects whose dependencies changed, in the
\* order React runs them: <Navigate> of the /editor route guard, the wallet
\* effect, the session loading effect, the session saving effect, and then
\* the callback of the loading effect's Promise.all.
RunEffects ==
  LET runWallet == ~mounted \/ pathname # rendered.pathname
      runLoad   == ~mounted \/ pathname # rendered.pathname \/ isLoading # rendered.isLoading
      runSave   == ~mounted \/ histDirty \/ historyIndex # rendered.historyIndex
      redirect  == ShowsRoutes /\ pathname = "/editor" /\ Len(history) = 0
      restore   == runLoad /\ sessionUsable(session)
      restored  == setHistoryState(savedFiles(session), session.historyIndex)
      saving    == runSave /\ Len(history) > 0 /\ historyIndex >= 0
  IN
  /\ ~Settled
  /\ saving /\ sessionData(history, historyIndex) \notin saves => Cardinality(saves) < MaxSaves
  /\ mounted' = TRUE
  /\ rendered' = [isLoading |-> isLoading, pathname |-> pathname, historyIndex |-> historyIndex]
  \* wallet effect
  /\ connects' = IF runWallet /\ hasEthereum THEN Min(connects + 1, MaxConnect) ELSE connects
  \* session loading effect: catch removes an unparsable session, finally clears the flag
  /\ session' = IF runLoad /\ session.kind = "garbage" THEN NoSession ELSE session
  /\ isLoading' = IF (runWallet /\ ~hasEthereum) \/ (runLoad /\ isLoading) THEN FALSE ELSE isLoading
  \* session saving effect
  /\ saves' = IF saving THEN saves \cup {sessionData(history, historyIndex)} ELSE saves
  \* Promise.all(filePromises).then
  /\ IF restore
     THEN /\ history' = restored.history
          /\ historyIndex' = restored.historyIndex
          /\ histDirty' = TRUE
          /\ pathname' = IF redirect THEN "/"
                          ELSE IF pathname = "/" THEN "/editor" ELSE pathname
          /\ lastOp' = "restore"
     ELSE /\ UNCHANGED <<history, historyIndex>>
          /\ histDirty' = FALSE
          /\ pathname' = IF redirect THEN "/" ELSE pathname
          /\ lastOp' = "other"
  /\ UNCHANGED <<error, calls, gens, hasEthereum, nextId, discarded>>
  /\ UNCHANGED vOffEditor

\* saveSession after the await: sessionStorage.setItem
SaveDone(s) ==
  /\ s \in saves
  /\ saves' = saves \ {s}
  /\ session' = s
  /\ lastOp' = "other"
  /\ UNCHANGED <<vStore, isLoading, error, pathname, calls, gens, connects, vEnv, nextId, discarded>>
  /\ UNCHANGED vOffEditor

\* saveSession: fileToDataURL rejects or setItem throws (quota); the catch logs it
SaveFails(s) ==
  /\ s \in saves
  /\ saves' = saves \ {s}
  /\ lastOp' = "other"
  /\ UNCHANGED <<vStore, isLoading, error, pathname, session, calls, gens, connects, vEnv,
                 nextId, discarded>>
  /\ UNCHANGED vOffEditor

\* silentConnect after the await: finally dispatches setIsLoading(false)
SilentConnectDone ==
  /\ connects > 0
  /\ connects' = connects - 1
  /\ isLoading' = FALSE
  /\ lastOp' = "other"
  /\ UNCHANGED <<vStore, error, pathname, session, saves, calls, gens, vEnv, nextId, discarded>>
  /\ UNCHANGED vOffEditor

Next ==
  \/ HandleFileSelect
  \/ StartGenerateImage
  \/ GenerateImageOk
  \/ GenerateImageFails
  \/ HandleCharacterFinalized
  \/ \E kind \in EditKinds : StartEdit(kind)
  \/ EditOk
  \/ EditFails
  \/ HandleApplyCrop
  \/ \E i \in NavIndexes : HandleHistoryNavigation(i)
  \/ HandleReset
  \/ TryAgain
  \/ HandleUploadNew
  \/ \E p \in Paths : NavigateTo(p)
  \/ RunEffects
  \/ \E s \in saves : SaveDone(s)
  \/ \E s \in saves : SaveFails(s)
  \/ SilentConnectDone

Spec == Init /\ [][Next]_vars

\* ------------------------------------------------- the controls on their own
\* The caller boundary of the edit-producing handlers as a function of what the
\* committed render shows: every editor view (a history, a cursor inside it,
\* the busy flag, the calls in flight) and a click on an edit control.
ControlHistories ==
  {h \in UNION {[1..n -> {File(d, "img", 0) : d \in Data}] : n \in 1..(MaxArtifacts + 1)} :
     \A i, j \in DOMAIN h : i # j => h[i] # h[j]}

InitControls ==
  /\ history \in ControlHistories
  /\ historyIndex \in 0..(Len(history) - 1)
  /\ isLoading \in BOOLEAN
  /\ error = NoError
  /\ pathname = "/editor"
  /\ session = NoSession
  /\ saves = {}
  /\ calls \in 0..1
  /\ gens = 0
  /\ connects = 0
  /\ hasEthereum = FALSE
  /\ mounted = TRUE
  /\ rendered = [isLoading |-> isLoading, pathname |-> pathname, historyIndex |-> historyIndex]
  /\ histDirty = FALSE
  /\ nextId = 0
  /\ lastOp = "other"
  /\ discarded = {}
  /\ minter = IdleMinter
  /\ loop = IdleLoop
  /\ issued = <<>>
  /\ NoNftState
  /\ NoDashboard

\* a click that a disabled control swallows
Rejected ==
  /\ lastOp' = "rejected"
  /\ UNCHANGED <<vStore, isLoading, error, pathname, session, vAsync, vEnv, nextId, discarded>>
  /\ UNCHANGED vOffEditor

ClickEdit(kind) ==
  /\ EditorVisible
  /\ IF editDisabled(isLoading) THEN Rejected ELSE StartEdit(kind)

ClickApplyCrop ==
  /\ EditorVisible
  /\ IF cropDisabled(isLoading) THEN Rejected ELSE HandleApplyCrop

NextControls ==
  \/ \E kind \in EditKinds : ClickEdit(kind)
  \/ ClickApplyCrop

SpecControls == InitControls /\ [][NextControls]_vars

\* ------------------------------------------- the editor with its calls traced
\* The editor page of a browser without a wallet extension, staying open. It
\* shows a restored image and the result of one edit of it, both saved, every edit call carrying the
\* image it was computed from (currentImage of the handler's closure).
EarlierImages == <<dataURLtoFile(-1, "session-img", 0), File(0, "img", 0)>>
InitRace ==
  /\ history = EarlierImages
  /\ historyIndex = Len(history) - 1
  /\ isLoading = FALSE
  /\ error = NoError
  /\ pathname = "/editor"
  /\ session = sessionData(history, historyIndex)
  /\ saves = {}
  /\ calls = 0
  /\ gens = 0
  /\ connects = 0
  /\ hasEthereum = FALSE
  /\ mounted = TRUE
  /\ rendered = [isLoading |-> isLoading, pathname |-> pathname, historyIndex |-> historyIndex]
  /\ histDirty = FALSE
  /\ nextId = Len(history) - 1
  /\ lastOp = "other"
  /\ discarded = {}
  /\ minter = IdleMinter
  /\ loop = IdleLoop
  /\ issued = <<>>
  /\ NoNftState
  /\ NoDashboard

Following(h, i) == {h[k].data : k \in {j \in DOMAIN h : j > i + 1}}
Without(q, k) == [j \in 1..(Len(q) - 1) |-> IF j < k THEN q[j] ELSE q[j + 1]]

IssueEdit(kind) ==
  /\ StartEditCall(kind)
  /\ issued' = Append(issued, [source |-> At(history, historyIndex).data,
                               after |-> Following(history, historyIndex)])
  /\ UNCHANGED vOffRace

ResolveEdit(k) ==
  /\ EditOkCommit
  /\ issued' = Without(issued, k)
  /\ UNCHANGED vOffRace

RejectEdit(k) ==
  /\ EditFailsCatch
  /\ issued' = Without(issued, k)
  /\ UNCHANGED vOffRace

NextRace ==
  \/ \E kind \in EditKinds : IssueEdit(kind)
  \/ \E k \in DOMAIN issued : ResolveEdit(k)
  \/ \E k \in DOMAIN issued : RejectEdit(k)
  \/ HandleApplyCrop
  \/ \E i \in NavIndexes : HandleHistoryNavigation(i)
  \/ HandleReset
  \/ TryAgain
  \/ RunEffects
  \/ \E s \in saves : SaveDone(s)
  \/ \E s \in saves : SaveFails(s)

SpecRace == InitRace /\ [][NextRace]_vars

\* ------------------------------------------------------- CollectionMinter
\* the rows of a parsed CSV: token ids, in file order (a file may repeat one)
TokenIds == 1..MaxItems
Csvs == UNION {[1..n -> TokenIds] : n \in 0..MaxItems}

\* setMintingProgress({ total: parsedData.length, completed: 0, errors: 0, ... })
startProgress(data) == [NoProgress EXCEPT !.total = Len(data)]
\* setMintingProgress(prev => ({ ...prev, completed: prev.completed + 1,
\*   successfulMints: [...prev.successfulMints, { tokenId, txHash }] }))
recordSuccess(prev, tokenId) ==
  [prev EXCEPT !.completed = @ + 1,
               !.successfulMints = Append(@, [tokenId |-> tokenId, txHash |-> "0xtx"])]
\* setMintingProgress(prev => ({ ...prev, errors: prev.errors + 1,
\*   failedMints: [...prev.failedMints, { tokenId, error }] }))
recordFailure_noCount(prev, tokenId) ==
  [prev EXCEPT !.failedMints = Append(@, [tokenId |-> tokenId, error |-> "failed"])]
recordFailure(prev, tokenId) ==
  [prev EXCEPT !.errors = @ + 1,
               !.failedMints = Append(@, [tokenId |-> tokenId, error |-> "failed"])]
\* for (const item of parsedData) { try { ... } catch { ... } }: the catch is
\* inside the loop body, so the next iteration follows a failure as a success
nextItem_abortsOnFailure(at, n, failed) == IF failed THEN n + 1 ELSE at + 1
nextItem(at, n, failed) == at + 1

\* the state of the page that shows the minter, with no editing session
InitBatch ==
  /\ history = <<>>
  /\ historyIndex = -1
  /\ isLoading = FALSE
  /\ error = NoError
  /\ pathname = "/"
  /\ session = NoSession
  /\ saves = {}
  /\ calls = 0
  /\ gens = 0
  /\ connects = 0
  /\ hasEthereum = TRUE
  /\ mounted = TRUE
  /\ rendered = [isLoading |-> FALSE, pathname |-> "/", historyIndex |-> -1]
  /\ histDirty = FALSE
  /\ nextId = 0
  /\ lastOp = "other"
  /\ discarded = {}
  /\ \E w \in {"null", "0xA"}, c \in {"", "0xC"}, data \in Csvs :
       minter = [IdleMinter EXCEPT !.walletAddress = w, !.contractAddress = c,
                                   !.parsedData = data]
  /\ loop = IdleLoop
  /\ issued = <<>>
  /\ NoNftState
  /\ NoDashboard

\* handleFileChange: another valid CSV is loaded
HandleFileChange(data) ==
  /\ ~minter.isMinting
  /\ data # minter.parsedData
  /\ minter' = [minter EXCEPT !.parsedData = data]
  /\ UNCHANGED <<loop, vOffBatch>>

\* handleMintCollection up to the loop, the confirm() accepted. The button is
\* disabled without a wallet, a contract address or rows; while isMinting the
\* MintingProgressModal covers the page.
HandleMintCollection ==
  /\ ~minter.isMinting
  /\ Len(minter.parsedData) > 0
  /\ minter.contractAddress # ""
  /\ minter.walletAddress # "null"
  /\ minter' = [minter EXCEPT !.isMinting = TRUE, !.isFinished = FALSE,
                              !.mintingProgress = startProgress(minter.parsedData)]
  /\ loop' = [items |-> minter.parsedData, at |-> 1, awaiting |-> FALSE, attempts |-> <<>>]
  /\ UNCHANGED vOffBatch

Running == loop.at >= 1

\* the loop body up to its await: polygonService.mintFromMetadataUrl is called
IssueMint ==
  /\ Running
  /\ loop.at <= Len(loop.items)
  /\ ~loop.awaiting
  /\ loop' = [loop EXCEPT !.awaiting = TRUE, !.attempts = Append(@, loop.items[loop.at])]
  /\ UNCHANGED <<minter, vOffBatch>>

\* the call returned a receipt with a hash
MintOk ==
  /\ loop.awaiting
  /\ minter' = [minter EXCEPT
                  !.mintingProgress = recordSuccess(@, loop.items[loop.at])]
  /\ loop' = [loop EXCEPT !.awaiting = FALSE,
                          !.at = nextItem(loop.at, Len(loop.items), FALSE)]
  /\ UNCHANGED vOffBatch

\* the call threw (no wallet, bad address, rejected, reverted) or returned no
\* receipt or hash: the catch of the loop body
MintFails ==
  /\ loop.awaiting
  /\ minter' = [minter EXCEPT
                  !.mintingProgress = recordFailure(@, loop.items[loop.at])]
  /\ loop' = [loop EXCEPT !.awaiting = FALSE,
                          !.at = nextItem(loop.at, Len(loop.items), TRUE)]
  /\ UNCHANGED vOffBatch

\* after the loop: setIsFinished(true)
FinishBatch ==
  /\ Running
  /\ loop.at > Len(loop.items)
  /\ minter' = [minter EXCEPT !.isFinished = TRUE]
  /\ loop' = [loop EXCEPT !.at = 0]
  /\ UNCHANGED vOffBatch

\* the Close button of the modal, enabled once isFinished
CloseModal ==
  /\ minter.isMinting
  /\ minter.isFinished
  /\ minter' = [minter EXCEPT !.isMinting = FALSE]
  /\ UNCHANGED <<loop, vOffBatch>>

NextBatch ==
  \/ \E data \in Csvs : HandleFileChange(data)
  \/ HandleMintCollection
  \/ IssueMint
  \/ MintOk
  \/ MintFails
  \/ FinishBatch
  \/ CloseModal

SpecBatch == InitBatch /\ [][NextBatch]_vars

\* ------------------------------------------------ wallet, NFTs, single mint
\* a minted record; its transaction hash stands for the transaction, whose
\* recipient is toAddress
MintedNft(to, n) == [transactionHash |-> [to |-> to, n |-> n]]

\* nftsSlice
setNfts(list) == list
addNft_dropped(list, nft) == list
addNft(list, nft) == Append(list, nft)

\* loadNftsForWallet: the list stored for the account, [] when there is none
loadNftsForWallet(a) == setNfts(storedNfts[a])

\* the step mintNftOnPolygon / handleConfirmMint reports when a stage is done
statusAfter_confirmsEarly(stage) ==
  CASE stage = "checked"  -> "network"
    [] stage = "switched" -> "confirming"
    [] stage = "uploaded" -> "confirming"
    [] stage = "receipt"  -> "minting"
    [] stage = "recorded" -> "success"
    [] OTHER              -> "error"
statusAfter(stage) ==
  CASE stage = "checked"  -> "network"
    [] stage = "switched" -> "uploading"
    [] stage = "uploaded" -> "confirming"
    [] stage = "receipt"  -> "minting"
    [] stage = "recorded" -> "success"
    [] OTHER              -> "error"

\* setStatus({ step, ... })
Report(m, stage) ==
  [m EXCEPT !.step = statusAfter(stage), !.log = Append(@, statusAfter(stage))]

\* The editor showing an image, a browser with a wallet extension, and what
\* localStorage holds: the mint configuration and earlier mints per account.
InitMint ==
  /\ history = <<File(0, "img", 0)>>
  /\ historyIndex = 0
  /\ isLoading = FALSE
  /\ error = NoError
  /\ pathname = "/editor"
  /\ session = sessionData(history, historyIndex)
  /\ saves = {}
  /\ calls = 0
  /\ gens = 0
  /\ connects = 0
  /\ hasEthereum = TRUE
  /\ mounted = TRUE
  /\ rendered = [isLoading |-> isLoading, pathname |-> pathname, historyIndex |-> historyIndex]
  /\ histDirty = FALSE
  /\ nextId = 1
  /\ lastOp = "other"
  /\ discarded = {}
  /\ minter = IdleMinter
  /\ loop = IdleLoop
  /\ issued = <<>>
  /\ walletAddress = "null"
  /\ myNfts = <<>>
  /\ storedNfts \in [Accounts -> {<<>>}] \cup {[a \in Accounts |-> <<MintedNft(a, 0)>>]}
  /\ nftsDirty = FALSE
  /\ \E c \in {"ok", "noContract", "badNetwork"} : mint = [IdleMint EXCEPT !.config = c]
  /\ NoDashboard

\* the effects of the render that follows a dispatch have run
NftSettled == ~nftsDirty

\* connectWallet after eth_requestAccounts, and handleAccountsChanged with a
\* new first account: setWalletAddress and loadNftsForWallet
ConnectAccount(a) ==
  /\ NftSettled
  /\ a # walletAddress
  /\ walletAddress' = a
  /\ myNfts' = loadNftsForWallet(a)
  /\ nftsDirty' = TRUE
  /\ UNCHANGED <<storedNfts, mint, vOffNft>>

\* disconnectWallet, also through handleAccountsChanged([])
DisconnectWallet ==
  /\ NftSettled
  /\ walletAddress # "null"
  /\ walletAddress' = "null"
  /\ myNfts' = setNfts(<<>>)
  /\ nftsDirty' = TRUE
  /\ UNCHANGED <<storedNfts, mint, vOffNft>>

\* the NFT saving effect of App
NftSavingEffect ==
  /\ nftsDirty
  /\ nftsDirty' = FALSE
  /\ storedNfts' = IF walletAddress # "null"
                     THEN [storedNfts EXCEPT ![walletAddress] = myNfts]
                     ELSE storedNfts
  /\ UNCHANGED <<walletAddress, myNfts, mint, vOffNft>>

\* handleOpenMintModal with a wallet connected
HandleOpenMintModal ==
  /\ NftSettled
  /\ walletAddress # "null"
  /\ ~mint.open
  /\ mint' = [mint EXCEPT !.open = TRUE]
  /\ UNCHANGED <<walletAddress, myNfts, storedNfts, nftsDirty, vOffNft>>

\* the backdrop or Cancel while idle, Close after a success: the modal unmounts
\* and its status is gone
CloseMintModal ==
  /\ NftSettled
  /\ mint.open
  /\ mint.step \in {"idle", "success"}
  /\ mint' = [mint EXCEPT !.open = FALSE, !.step = "idle", !.stage = "none"]
  /\ UNCHANGED <<walletAddress, myNfts, storedNfts, nftsDirty, vOffNft>>

\* the Try Again button of the error view
MintTryAgain ==
  /\ NftSettled
  /\ mint.step = "error"
  /\ mint' = [mint EXCEPT !.step = "idle"]
  /\ UNCHANGED <<walletAddress, myNfts, storedNfts, nftsDirty, vOffNft>>

\* handleSubmit -> handleConfirmMint up to the first await: the configuration
\* tests, then the tests of mintNftOnPolygon (wallet, storage key, address),
\* which may throw, then 'network'
HandleConfirmMint(checksPass) ==
  /\ NftSettled
  /\ mint.open
  /\ mint.step = "idle"
  /\ mint.count < MaxMints
  /\ LET m == [mint EXCEPT !.log = <<>>, !.uploaded = FALSE, !.receipt = FALSE,
                           !.hash = FALSE, !.to = "null", !.count = @ + 1]
     IN  mint' = IF Len(history) > 0 /\ mint.config = "ok" /\ checksPass
                   THEN [Report(m, "checked") EXCEPT !.stage = "switching"]
                   ELSE [Report(m, "failed") EXCEPT !.stage = "none"]
  /\ UNCHANGED <<walletAddress, myNfts, storedNfts, nftsDirty, vOffNft>>

\* switchToNetwork resolved and provider.getSigner() returned the signer of
\* the connected account
NetworkSwitched ==
  /\ NftSettled
  /\ mint.stage = "switching"
  /\ walletAddress # "null"
  /\ mint' = [Report(mint, "switched") EXCEPT !.stage = "uploading", !.to = walletAddress]
  /\ UNCHANGED <<walletAddress, myNfts, storedNfts, nftsDirty, vOffNft>>

\* nftStorageClient.store resolved
MetadataStored ==
  /\ NftSettled
  /\ mint.stage = "uploading"
  /\ mint' = [Report(mint, "uploaded") EXCEPT !.stage = "signing", !.uploaded = TRUE]
  /\ UNCHANGED <<walletAddress, myNfts, storedNfts, nftsDirty, vOffNft>>

\* mintFromMetadataUrl returned: 'minting' is reported, then handleConfirmMint
\* tests the hash, dispatches addNft and reports 'success', or throws
MintReturned(hasHash) ==
  /\ NftSettled
  /\ mint.stage = "signing"
  /\ LET m == [Report(mint, "receipt") EXCEPT !.stage = "none", !.receipt = TRUE,
                                               !.hash = hasHash]
     IN  IF hasHash
           THEN /\ myNfts' = addNft(myNfts, MintedNft(mint.to, mint.count))
                /\ nftsDirty' = TRUE
                /\ mint' = Report(m, "recorded")
           ELSE /\ mint' = Report(m, "failed")
                /\ UNCHANGED <<myNfts, nftsDirty>>
  /\ UNCHANGED <<walletAddress, storedNfts, vOffNft>>

\* any await of the mint rejects: the switch, the upload, the transaction
MintThrows ==
  /\ NftSettled
  /\ mint.stage \in {"switching", "uploading", "signing"}
  /\ mint' = [Report(mint, "failed") EXCEPT !.stage = "none"]
  /\ UNCHANGED <<walletAddress, myNfts, storedNfts, nftsDirty, vOffNft>>

NextMint ==
  \/ \E a \in Accounts : ConnectAccount(a)
  \/ DisconnectWallet
  \/ NftSavingEffect
  \/ HandleOpenMintModal
  \/ CloseMintModal
  \/ MintTryAgain
  \/ \E checksPass \in BOOLEAN : HandleConfirmMint(checksPass)
  \/ NetworkSwitched
  \/ MetadataStored
  \/ \E hasHash \in BOOLEAN : MintReturned(hasHash)
  \/ MintThrows

SpecMint == InitMint /\ [][NextMint]_vars

\* ---------------------------------------------------------------- dashboard
Titles == {<<"a">>, <<"B">>, <<"A", "b">>}
SearchTerms == {<<>>, <<"a">>, <<"b">>, <<"A", "B">>}
SortOptions == {"date-desc", "date-asc", "name-asc", "name-desc", "custom"}

\* String.prototype.toLowerCase
LowerChar(c) == CASE c = "A" -> "a" [] c = "B" -> "b" [] OTHER -> c
toLowerCase(str) == [i \in DOMAIN str |-> LowerChar(str[i])]
\* String.prototype.includes
includes(str, part) ==
  \E i \in 0..(Len(str) - Len(part)) : SubSeq(str, i + 1, i + Len(part)) = part

\* String.prototype.localeCompare: the letters decide, then the case with the
\* lower-case letter first
Letter(c) == CASE LowerChar(c) = "a" -> 1 [] OTHER -> 2
Case(c) == IF LowerChar(c) = c THEN 0 ELSE 1
Least(S) == CHOOSE x \in S : \A y \in S : x <= y
Weight(c, level) == IF level = "letter" THEN Letter(c) ELSE Case(c)
LevelCompare(x, y, level) ==
  LET common == 1..(IF Len(x) < Len(y) THEN Len(x) ELSE Len(y))
      differ == {i \in common : Weight(x[i], level) # Weight(y[i], level)}
  IN  IF differ = {} THEN Len(x) - Len(y)
      ELSE Weight(x[Least(differ)], level) - Weight(y[Least(differ)], level)
localeCompare(x, y) ==
  IF LevelCompare(x, y, "letter") # 0 THEN LevelCompare(x, y, "letter")
  ELSE LevelCompare(x, y, "case")

\* the comparator handed to sort
compare(a, b, option) ==
  CASE option = "date-desc" -> b.mintDate - a.mintDate
    [] option = "date-asc"  -> a.mintDate - b.mintDate
    [] option = "name-asc"  -> localeCompare(a.title, b.title)
    [] option = "name-desc" -> localeCompare(b.title, a.title)
    [] OTHER                -> 0

\* Array.prototype.filter
RECURSIVE filter(_, _)
filter(list, term) ==
  IF list = <<>> THEN <<>>
  ELSE IF includes(toLowerCase(Head(list).title), toLowerCase(term))
         THEN <<Head(list)>> \o filter(Tail(list), term)
         ELSE filter(Tail(list), term)

\* Array.prototype.sort, which is stable
sort(list, option) ==
  LET before(j, k) == \/ compare(list[j], list[k], option) < 0
                      \/ compare(list[j], list[k], option) = 0 /\ j < k
      place(k) == 1 + Cardinality({j \in DOMAIN list : before(j, k)})
  IN  [p \in DOMAIN list |-> list[CHOOSE k \in DOMAIN list : place(k) = p]]

\* the cards of the grid, in order
filteredAndSortedNfts(nfts, term, option) ==
  LET processedNfts == IF term # <<>> THEN filter(nfts, term) ELSE nfts
  IN  IF option = "custom" THEN processedNfts ELSE sort(processedNfts, option)

\* reorderedNfts after the two splice calls; indices count from 0
splice(list, from, to) ==
  LET rest == SubSeq(list, 1, from) \o SubSeq(list, from + 2, Len(list))
  IN  SubSeq(rest, 1, to) \o <<list[from + 1]>> \o SubSeq(rest, to + 1, Len(rest))

\* a record of the list; mintDate is the key of its card
Nft(title, mintDate) ==
  [title |-> title, mintDate |-> mintDate,
   transactionHash |-> [to |-> "0xA", n |-> mintDate]]
RECURSIVE Collections(_)
Collections(dates) ==
  {<<>>} \cup UNION {{<<Nft(t, d)>> \o rest : t \in Titles, rest \in Collections(dates \ {d})} :
                      d \in dates}

\* The dashboard of a connected account whose stored list was loaded.
InitDash ==
  /\ history = <<>>
  /\ historyIndex = -1
  /\ isLoading = FALSE
  /\ error = NoError
  /\ pathname = "/dashboard"
  /\ session = NoSession
  /\ saves = {}
  /\ calls = 0
  /\ gens = 0
  /\ connects = 0
  /\ hasEthereum = TRUE
  /\ mounted = TRUE
  /\ rendered = [isLoading |-> isLoading, pathname |-> pathname, historyIndex |-> historyIndex]
  /\ histDirty = FALSE
  /\ nextId = 0
  /\ lastOp = "other"
  /\ discarded = {}
  /\ minter = IdleMinter
  /\ loop = IdleLoop
  /\ issued = <<>>
  /\ walletAddress = "0xA"
  /\ myNfts \in Collections(1..MaxNfts)
  /\ storedNfts = [a \in Accounts |-> IF a = walletAddress THEN myNfts ELSE <<>>]
  /\ nftsDirty = FALSE
  /\ mint = IdleMint
  /\ NoDashboard

View == filteredAndSortedNfts(myNfts, searchTerm, sortBy)

\* typing into the search box
SetSearchTerm(term) ==
  /\ draggedIndex = NoDrag
  /\ Len(myNfts) > 0
  /\ term # searchTerm
  /\ searchTerm' = term
  /\ UNCHANGED <<sortBy, draggedIndex, myNfts, storedNfts, nftsDirty, vOffDash>>

\* choosing one of the four options of the select
SetSortBy(option) ==
  /\ draggedIndex = NoDrag
  /\ Len(myNfts) > 0
  /\ option # sortBy
  /\ sortBy' = option
  /\ UNCHANGED <<searchTerm, draggedIndex, myNfts, storedNfts, nftsDirty, vOffDash>>

\* handleDragStart: a drag starts at the link, draggable while no search is
\* active, or at the image inside the card, draggable as every image, whose
\* dragstart bubbles to the link
HandleDragStart(index, byImage) ==
  /\ ~nftsDirty
  /\ draggedIndex = NoDrag
  /\ index \in 0..(Len(View) - 1)
  /\ byImage \/ searchTerm = <<>>
  /\ draggedIndex' = index
  /\ UNCHANGED <<searchTerm, sortBy, myNfts, storedNfts, nftsDirty, vOffDash>>

\* handleDrop on the card at dropIndex
HandleDrop(dropIndex) ==
  /\ ~nftsDirty
  /\ draggedIndex # NoDrag
  /\ dropIndex \in 0..(Len(View) - 1)
  /\ IF draggedIndex = dropIndex
       THEN UNCHANGED <<myNfts, sortBy, nftsDirty>>
       ELSE /\ myNfts' = setNfts(splice(View, draggedIndex, dropIndex))
            /\ sortBy' = "custom"
            /\ nftsDirty' = TRUE
  /\ draggedIndex' = NoDrag
  /\ UNCHANGED <<searchTerm, storedNfts, vOffDash>>

\* handleDragEnd: the drag ended outside every card
HandleDragEnd ==
  /\ draggedIndex # NoDrag
  /\ draggedIndex' = NoDrag
  /\ UNCHANGED <<searchTerm, sortBy, myNfts, storedNfts, nftsDirty, vOffDash>>

NextDash ==
  \/ \E term \in SearchTerms : SetSearchTerm(term)
  \/ \E option \in SortOptions \ {"custom"} : SetSortBy(option)
  \/ \E index \in 0..(MaxNfts - 1), byImage \in BOOLEAN : HandleDragStart(index, byImage)
  \/ \E dropIndex \in 0..(MaxNfts - 1) : HandleDrop(dropIndex)
  \/ HandleDragEnd
  \/ NftSavingEffect

SpecDash == InitDash /\ [][NextDash]_vars

\* ------------------------------------------------------------------ typing
TypeOK ==
  /\ historyIndex \in -1..(MaxArtifacts + Cardinality(PrevData))
  /\ isLoading \in BOOLEAN
  /\ pathname \in Paths
  /\ DataSet(history) \subseteq Data

\* ================================================================== claims
Range(h) == {h[k] : k \in DOMAIN h}

\* C1: in every reachable state the cursor is inside a non-empty history
\* (0 <= historyIndex < history.length) and is -1 when the history is empty.
C1_CursorInRange ==
  IF Len(history) > 0
  THEN 0 <= historyIndex /\ historyIndex < Len(history)
  ELSE historyIndex = -1

\* C2: an append issued while the cursor is not at the tip keeps the elements
\* 0..historyIndex in order, puts the new artifact after them, has length
\* historyIndex + 2, leaves the cursor on the last index, and none of the
\* artifacts that followed the old cursor is in the new history.
C2_AppendTruncates ==
  [][(lastOp' \in AppendOps /\ historyIndex < Len(history) - 1) =>
       /\ Len(history') = historyIndex + 2
       /\ SubSeq(history', 1, historyIndex + 1) = SubSeq(history, 1, historyIndex + 1)
       /\ history'[Len(history')] \notin Range(history)
       /\ historyIndex' = Len(history') - 1
       /\ \A k \in (historyIndex + 2)..Len(history) : history[k] \notin Range(history')]_vars
C2_Witness == lastOp = "appendCut" /\ discarded # {}

\* C3: an append issued with the cursor at the tip makes the history one longer,
\* keeps every existing element in place and leaves the cursor on the last index.
C3_AppendAtTip ==
  [][(lastOp' \in AppendOps /\ historyIndex = Len(history) - 1) =>
       /\ Len(history') = Len(history) + 1
       /\ SubSeq(history', 1, Len(history)) = history
       /\ historyIndex' = Len(history') - 1]_vars
\* two appends in a row on top of a one-element history
C3_Witness == lastOp = "append" /\ Len(history) = 3 /\ historyIndex = 2

\* C4: once a non-tip append has cut artifacts off, no later step puts one of
\* them back into history before the next seed.
C4_NoResurrection == \A k \in DOMAIN history : history[k].data \notin discarded

\* C5: a non-empty history becomes empty only by resetHistory (handleUploadNew).
C5_EmptyOnlyByReset ==
  [][(Len(history) > 0 /\ Len(history') = 0) => lastOp' = "reset"]_vars
C5_Witness == lastOp = "reset" /\ Len(history) = 0 /\ session = NoSession

\* C6: while a session is active the images of history change only by an append
\* (or a new seed or the reset), the cursor only by an append or a seek.
C6_OnlyAppendAndSeek ==
  [][Len(history) > 0 =>
       /\ DataOf(history') # DataOf(history) => lastOp' \in AppendOps \cup SeedOps \cup {"reset"}
       /\ historyIndex' # historyIndex => lastOp' \in AppendOps \cup SeekOps \cup SeedOps \cup {"reset"}]_vars

\* C7: a seed replaces whatever history there was by the one new artifact and
\* puts the cursor on 0; no earlier artifact remains.
C7_SeedReplaces ==
  [][lastOp' \in SeedOps =>
       /\ Len(history') = 1
       /\ history'[1].data = nextId
       /\ historyIndex' = 0
       /\ history'[1] \notin Range(history)]_vars
\* a seed over a non-empty history
C7_Witness == lastOp = "seedOver" /\ Len(history) = 1 /\ historyIndex = 0

\* C8: for every index i inside the history, seek(i) makes history[i] the
\* current artifact, and seeking to i again changes nothing.
C8_SeekSetsCurrent ==
  \A i \in NavIndexes :
    Defined(history, i) =>
      LET once == handleHistoryNavigation(Store, i)
      IN  /\ Defined(once.history, once.historyIndex)
          /\ At(once.history, once.historyIndex) = At(history, i)
          /\ handleHistoryNavigation(once, i) = once
\* a seek has moved the cursor off the tip
C8_Witness == lastOp = "seek" /\ historyIndex < Len(history) - 1

\* C9: a seek with an index outside [0, history.length) changes neither the
\* cursor nor the history, also when the history is empty.
C9_SeekOutOfRange ==
  \A i \in NavIndexes :
    ~Defined(history, i) => handleHistoryNavigation(Store, i) = Store
C9_Witness == lastOp = "seekRejected" /\ Len(history) > 0

\* C10: a seek (history navigation, or the reset to the original) changes only
\* the cursor: history and isLoading are as before.
C10_SeekFrame ==
  [][lastOp' \in SeekOps => (history' = history /\ isLoading' = isLoading)]_vars
\* the revert to the original on a history of at least two
C10_Witness == lastOp = "seek" /\ historyIndex = 0 /\ Len(history) >= 2

\* C11: the reset of handleUploadNew leaves an empty history and the cursor -1,
\* so there is no current and no original artifact and canUndo is false.
C11_ResetClears ==
  [][lastOp' = "reset" =>
       /\ history' = <<>>
       /\ historyIndex' = -1
       /\ currentImageUrl(Store)' = {}
       /\ originalImageUrl(Store)' = {}
       /\ ~canUndo(Store)']_vars
\* a reset after both images of the run were created
C11_Witness == lastOp = "reset" /\ Len(history) = 0 /\ historyIndex = -1 /\ nextId = MaxArtifacts

\* C12: from a seed on, until the next seed or the reset, history[0] stays the
\* seeded image, and the original shown to the UI is history[0].
C12_OriginalKept ==
  [][(Len(history) > 0 /\ lastOp' \notin SeedOps \cup {"reset"}) =>
       /\ originalImageUrl(Store)' # {}
       /\ \A f \in originalImageUrl(Store)' : f.data = history[1].data]_vars

\* C13: an append that reaches an empty history (cursor -1) is refused: it
\* reports an error and leaves the history empty and the cursor at -1.
C13_AppendOnEmptyRefused ==
  [][(lastOp' \in AppendOps /\ Len(history) = 0) =>
       /\ history' = <<>>
       /\ historyIndex' = -1
       /\ error' # NoError]_vars

\* C14: in every reachable state at most one edit-producing external call is
\* in flight.
C14_OneEditInFlight == calls <= 1

C16_BusyAcquiredReleased ==
  [][/\ (calls' > calls \/ gens' > gens) => isLoading'
     /\ (calls' < calls \/ gens' < gens) => ~isLoading']_vars
\* an edit call was issued and failed, and nothing else is in flight
C16_Witness ==
  error = "failed" /\ ~isLoading /\ calls = 0 /\ gens = 0 /\ pathname = "/editor" /\ Len(history) > 0

\* a step in which an external call completes without an image
CallFailed == (calls' < calls \/ gens' < gens) /\ nextId' = nextId

\* C17: a step in which an external edit or generation call fails sets error
\* to a message and changes neither history nor historyIndex.
C17_FailureKeepsHistory ==
  [][CallFailed =>
       /\ error' # NoError
       /\ history' = history
       /\ historyIndex' = historyIndex]_vars
\* an edit issued after an undo failed: both images are still there
C17_Witness ==
  error = "failed" /\ calls = 0 /\ gens = 0 /\ Len(history) = 2 /\ historyIndex = 0

\* the image an append has just put at the end of history
Appended == history'[Len(history')]

\* C18 as stated: every append to history is the commit of an external call
\* that resolves with an image in that step.
C18_AppendOnlyAfterCall ==
  [][lastOp' \in AppendOps => (calls' = calls - 1 /\ ~CallFailed)]_vars
\* C18 amended: every append is either the commit of an external call that
\* resolves with an image in that step, or the image handleApplyCrop cut out
\* of the current one, which involves no external call.
C18_AppendAfterCallOrCrop ==
  [][lastOp' \in AppendOps =>
       IF Appended.name.prefix = "cropped"
         THEN calls' = calls /\ gens' = gens
         ELSE calls' = calls - 1 /\ ~CallFailed]_vars
\* a crop was appended while no call was in flight
C18_Witness ==
  /\ lastOp \in AppendOps
  /\ Len(history) = 2
  /\ history[2].name.prefix = "cropped"
  /\ calls = 0

\* a stored session that is a non-empty list of artifacts with a cursor inside it
sessionValid(s) == sessionUsable(s) /\ s.historyIndex \in 0..(Len(s.history) - 1)

\* C19: the load of the persisted session at startup leaves the store empty
\* (history empty, cursor -1) when the stored data is corrupt, and otherwise
\* holding exactly the stored history and cursor; no load ever restores a
\* session whose cursor is outside its history.
C19_LoadValidates ==
  [][/\ (~mounted /\ mounted') =>
          IF sessionValid(session)
            THEN history' = savedFiles(session) /\ historyIndex' = session.historyIndex
            ELSE history' = <<>> /\ historyIndex' = -1
     /\ lastOp' = "restore" => sessionValid(session)]_vars

\* C20: when a save writes the session and no other save is pending or about
\* to start, the stored session is the store's current history and cursor (for
\* a store that holds a history): an earlier save never overwrites a later one.
C20_SessionFollowsStore ==
  [][(/\ session' # session
      /\ saves' = {}
      /\ Settled'
      /\ Len(history') > 0
      /\ historyIndex' >= 0) =>
       session' = sessionData(history', historyIndex')]_vars

\* C21: once the App is mounted and the store is empty (after Start Over, or
\* with nothing to restore at startup), no step writes a session under the
\* session key and no step restores a session into the store.
C21_ResetDestroysSession ==
  [][(mounted /\ Len(history) = 0) =>
       /\ session' \in {session, NoSession}
       /\ lastOp' # "restore"]_vars

\* the token ids of the entries of a result list, in order
TokenIdsOf(list) == [k \in DOMAIN list |-> list[k].tokenId]
Progress == minter.mintingProgress

Count(list, id) == Cardinality({k \in DOMAIN list : list[k] = id})

C24_BusyWhileInFlight == calls > 0 => isLoading

\* C25: when an edit call resolves with an image, the cursor is on the image the
\* call was computed from, so the result lands directly after it, and the
\* commit discards no image other than those that followed that image when the
\* call was issued.
C25_CommitAfterSource ==
  [][(Len(issued') < Len(issued) /\ lastOp' \in AppendOps) =>
       \E k \in DOMAIN issued :
         /\ issued' = Without(issued, k)
         /\ Defined(history, historyIndex)
         /\ At(history, historyIndex).data = issued[k].source
         /\ CutOff(Store, Store') \subseteq issued[k].after]_vars
\* C26: a mint that ends adds exactly one record to myNfts if and only if it
\* returned a receipt with a transaction hash, and exactly then reports
\* 'success'; every other end reports 'error' and leaves myNfts as it was;
\* nothing but the end of a mint or a change of account changes myNfts.
MintEnds == mint'.step \in {"success", "error"} /\ mint.step \notin {"success", "error"}
C26_RecordIffReceiptHash ==
  [][/\ MintEnds =>
        /\ mint'.hash <=> mint'.step = "success"
        /\ mint'.hash => myNfts' = Append(myNfts, MintedNft(mint'.to, mint'.count))
        /\ ~mint'.hash => myNfts' = myNfts
     /\ (~MintEnds /\ walletAddress' = walletAddress) => myNfts' = myNfts]_vars
\* a failed mint and then a successful one, after which the list holds the
\* one record of the second
C26_Witness ==
  /\ mint.step = "success"
  /\ mint.count = 2
  /\ walletAddress \in Accounts
  /\ myNfts = <<MintedNft(mint.to, 2)>>

\* C27: the steps reported during one mint only move forward in the order
\* network, uploading, confirming, minting, success; 'error' may follow any
\* step; nothing follows 'success' or 'error'; 'confirming' comes only after
\* the upload completed and 'success' only after a receipt was obtained.
Rank(step) ==
  CASE step = "network"    -> 1
    [] step = "uploading"  -> 2
    [] step = "confirming" -> 3
    [] step = "minting"    -> 4
    [] step = "success"    -> 5
    [] OTHER               -> 0
Reported(step) == \E i \in DOMAIN mint.log : mint.log[i] = step
C27_StepsForward ==
  /\ \A i \in 1..(Len(mint.log) - 1) :
        /\ mint.log[i] \notin {"success", "error"}
        /\ mint.log[i + 1] = "error" \/ Rank(mint.log[i + 1]) > Rank(mint.log[i])
  /\ \A i \in DOMAIN mint.log : mint.log[i] = "error" \/ Rank(mint.log[i]) > 0
  /\ Reported("confirming") => mint.uploaded
  /\ Reported("success") => mint.receipt
C27_Witness == mint.log = <<"network", "uploading", "confirming", "minting", "success">>

\* C28: the list stored under nfts-<address> holds only records of that
\* account, whatever account switch or disconnect happened, also during a mint.
C28_StoredUnderOwnAccount ==
  \A a \in Accounts : \A k \in DOMAIN storedNfts[a] :
    storedNfts[a][k].transactionHash.to = a
\* C29: a drop on the dashboard replaces myNfts by a permutation of the
\* previous myNfts, with every search term and every sort option in effect: no
\* record is added, dropped or duplicated.
Occurrences(list, x) == Cardinality({i \in DOMAIN list : list[i] = x})
Permutation(old, new) ==
  /\ Len(new) = Len(old)
  /\ \A i \in DOMAIN old : Occurrences(new, old[i]) = Occurrences(old, old[i])
C29_DropPermutes ==
  [][(draggedIndex # NoDrag /\ draggedIndex' = NoDrag) => Permutation(myNfts, myNfts')]_vars

\* C30: after a seed (file upload, successful generation, character finalize)
\* the editor's error is null: an error left by an earlier failed operation
\* does not carry over into the new session.
Seeded == nextId' = nextId + 1 /\ lastOp' \in SeedOps
C30_SeedClearsError == [][Seeded => error' = NoError]_vars
====
